---------------------------- MODULE Spec2Model ----------------------------
(***************************************************************************)
(* Model of Reddit_Pipeline.py: the RedditPost data model, the extractor   *)
(* (fetch_subreddit, normalize_post), the DatabaseManager (insert_posts,   *)
(* get_analytics) and main().                                              *)
(*                                                                         *)
(* Representation                                                          *)
(*   - Optional[X] is a sequence of length <= 1: None is <<>>, a value x   *)
(*     is <<x>>.                                                           *)
(*   - a Python dict is a function; a missing key is a key outside its     *)
(*     DOMAIN (subscripting it raises KeyError).                           *)
(*   - floats are scaled integers: upvote_ratio in hundredths (0.5 is 50), *)
(*     sentiment polarity in thousandths (0.1 is 100, 0.625 is 625).       *)
(*   - the posts table is the sequence of its rows in rowid order.         *)
(***************************************************************************)
EXTENDS Integers, Sequences, FiniteSets, TLC

VARIABLES
    store,          \* the posts table as committed in the SQLite file, rows in
                    \* rowid order (what any other connection reads)
    txn,            \* insert_posts: the open transaction of its connection: None,
                    \* or the table with the writes executed but not committed
    w_pc,           \* insert_posts: "idle" (not running) or "loop"
    inserted,       \* insert_posts: the counter it returns
    outcomes,       \* insert_posts: per record handled so far, what its try did
    faults,         \* number of executes and commits that raised "database is
                    \* locked" so far
    pc,             \* main(): position of the run
    idx,            \* main(): index of the subreddit being fetched
    raw_posts,      \* main(): what the last fetch_subreddit call returned
    all_posts,      \* main(): the RedditPost objects accumulated so far
    reported,       \* subreddits whose fetch error was printed in this run
    clock,          \* what datetime.now() returns (a logical instant)
    r_pc,           \* get_analytics: "idle" (not running) or the query to run next
    overall,        \* get_analytics: its local overall, once assigned
    most_positive_title, \* get_analytics: its local of that name, once assigned
    most_negative_title, \* get_analytics: its local of that name, once assigned
    sentiment_dist, \* get_analytics: its local of that name, once assigned
    analytics,      \* outcome of the last get_analytics call that has ended
    reads,          \* history: the table as each query of the current / last
                    \* get_analytics call read it
    lastOp,         \* "insert_posts" once insert_posts has been called
    lastBatch,      \* argument of the current / last insert_posts call
    storeBefore,    \* the committed table when that call began
    repeated,       \* that call repeats the batch of the call just before it
    written,        \* history: post_id -> the RedditPost last counted as inserted
    firstSeen,      \* history: post_ids in the order they first got a committed row
    n_raw,          \* normalize_post: the raw_post argument
    n_subreddit,    \* normalize_post: the subreddit argument
    n_result,       \* normalize_post: the value returned
    n_pc            \* normalize_post: "call" before, "return" after

vars == <<store, txn, w_pc, inserted, outcomes, faults, pc, idx, raw_posts,
          all_posts, reported, clock, r_pc, overall, most_positive_title,
          most_negative_title, sentiment_dist, analytics, reads, lastOp, lastBatch,
          storeBefore, repeated, written, firstSeen,
          n_raw, n_subreddit, n_result, n_pc>>

writeVars == <<store, txn, w_pc, inserted, outcomes, faults, lastOp,
               lastBatch, storeBefore, repeated, written,
               firstSeen>>
readVars == <<r_pc, overall, most_positive_title, most_negative_title,
              sentiment_dist, analytics, reads>>
dbVars == <<writeVars, readVars>>
mainVars == <<pc, idx, raw_posts, all_posts, reported, clock>>
normVars == <<n_raw, n_subreddit, n_result, n_pc>>

None == <<>>
Some(x) == <<x>>

Min(a, b) == IF a <= b THEN a ELSE b

(***************************************************************************)
(* RedditPost (pydantic model)                                             *)
(***************************************************************************)
DefaultAuthor == "[deleted]"
DefaultScore == 0
DefaultNumComments == 0
DefaultUpvoteRatio == 50

\* Field(..., ge=..., le=..., min_length=...): the constraints of each field.
\* post_id carries no min_length.
FieldsValid(p) ==
    /\ p.subreddit # ""
    /\ p.title # ""
    /\ p.score >= 0
    /\ p.num_comments >= 0
    /\ p.upvote_ratio >= 0
    /\ p.upvote_ratio <= 100

\* RedditPost(**kw): a keyword left out takes the field's default; post_id,
\* subreddit and title are required. Returns None where pydantic raises
\* ValidationError. fetched_at is default_factory=datetime.now.
RedditPost(kw, now) ==
    IF ~ ({"post_id", "subreddit", "title"} \subseteq DOMAIN kw)
    THEN None
    ELSE LET p == [post_id         |-> kw["post_id"],
                   subreddit       |-> kw["subreddit"],
                   title           |-> kw["title"],
                   author          |-> IF "author" \in DOMAIN kw
                                       THEN kw["author"] ELSE DefaultAuthor,
                   score           |-> IF "score" \in DOMAIN kw
                                       THEN kw["score"] ELSE DefaultScore,
                   num_comments    |-> IF "num_comments" \in DOMAIN kw
                                       THEN kw["num_comments"]
                                       ELSE DefaultNumComments,
                   upvote_ratio    |-> IF "upvote_ratio" \in DOMAIN kw
                                       THEN kw["upvote_ratio"]
                                       ELSE DefaultUpvoteRatio,
                   sentiment_score |-> IF "sentiment_score" \in DOMAIN kw
                                       THEN Some(kw["sentiment_score"]) ELSE None,
                   sentiment_label |-> IF "sentiment_label" \in DOMAIN kw
                                       THEN Some(kw["sentiment_label"]) ELSE None,
                   fetched_at      |-> now]
         IN  IF FieldsValid(p) THEN Some(p) ELSE None

(***************************************************************************)
(* Sentiment                                                               *)
(***************************************************************************)
\* TextBlob(title).sentiment.polarity, in thousandths. TextBlob is a library
\* outside the repository: the table gives the polarity of each title the
\* model uses (the synthetic titles are named after their polarity).
Polarity(title) ==
    CASE title = "I love this!"      -> 625
      [] title = "I love that!"      -> 625
      [] title = "This is terrible." -> -1000
      [] title = "This is awful."    -> -1000
      [] title = "The sky is blue."  -> 0
      [] title = "Water is wet."     -> 0
      [] title = "polarity +0.101"   -> 101
      [] title = "polarity +0.100"   -> 100
      [] title = "polarity -0.100"   -> -100
      [] title = "polarity -0.101"   -> -101
      [] OTHER                       -> 0

PositiveThreshold == 100
NegativeThreshold == -100

SentimentLabelInclusive(sentiment_score) ==
    IF sentiment_score >= PositiveThreshold THEN "Positive"
    ELSE IF sentiment_score <= NegativeThreshold THEN "Negative"
    ELSE "Neutral"

\* the if / elif / else of normalize_post
SentimentLabel(sentiment_score) ==
    IF sentiment_score > PositiveThreshold THEN "Positive"
    ELSE IF sentiment_score < NegativeThreshold THEN "Negative"
    ELSE "Neutral"

(***************************************************************************)
(* RedditDataExtractor.normalize_post                                      *)
(***************************************************************************)
PostDataKeys == {"id", "author", "score", "num_comments", "upvote_ratio"}

\* Any exception inside the try block (KeyError on a missing key,
\* ValidationError from RedditPost) is caught, printed, and None returned.
normalize_post(raw_post, subreddit, now) ==
    IF "data" \notin DOMAIN raw_post THEN None
    ELSE LET post_data == raw_post["data"] IN
         IF "title" \notin DOMAIN post_data THEN None
         ELSE LET title == post_data["title"]
                  sentiment_score == Polarity(title)
                  sentiment_label == SentimentLabel(sentiment_score)
              IN  IF ~ (PostDataKeys \subseteq DOMAIN post_data) THEN None
                  ELSE RedditPost(
                         [post_id         |-> post_data["id"],
                          subreddit       |-> subreddit,
                          title           |-> title,
                          author          |-> post_data["author"],
                          score           |-> post_data["score"],
                          num_comments    |-> post_data["num_comments"],
                          upvote_ratio    |-> post_data["upvote_ratio"],
                          sentiment_score |-> sentiment_score,
                          sentiment_label |-> sentiment_label],
                         now)

(***************************************************************************)
(* DatabaseManager: the posts table                                        *)
(***************************************************************************)
\* Largest value of an SQLite INTEGER. It stands for 2^63 - 1: the model
\* checker's integers are 32 bits wide, so magnitudes are scaled down, and
\* BigScore stands for 2^63, the least score the sqlite3 binding refuses.
SqliteIntMax == 1000
BigScore == SqliteIntMax + 1

\* post.fetched_at.isoformat(): the instant rendered as a string
IsoFormat(t) == <<"isoformat", t>>

\* the parameter tuple of the INSERT OR REPLACE statement, by column
RowOf(post) ==
    [post_id         |-> post.post_id,
     subreddit       |-> post.subreddit,
     title           |-> post.title,
     author          |-> post.author,
     score           |-> post.score,
     num_comments    |-> post.num_comments,
     upvote_ratio    |-> post.upvote_ratio,
     sentiment_score |-> post.sentiment_score,
     sentiment_label |-> post.sentiment_label,
     fetched_at      |-> IsoFormat(post.fetched_at)]

\* cursor.execute raises (OverflowError: Python int too large to convert to
\* SQLite INTEGER) when an int parameter does not fit 64 bits; the statement
\* is not run then.
BindError(post) ==
    \/ post.score > SqliteIntMax
    \/ post.num_comments > SqliteIntMax

\* INSERT OR REPLACE on the PRIMARY KEY post_id: the row holding the key, if
\* any, is deleted and the new row is inserted with a fresh rowid (the
\* largest in the table plus one), so it becomes the last row in rowid order.
InsertOrReplace(table, row) ==
    Append(SelectSeq(table, LAMBDA r : r.post_id # row.post_id), row)

\* what the connection of insert_posts sees: the committed table, or its own
\* open transaction
ConnView(committed, transaction) ==
    IF transaction = None THEN committed ELSE transaction[1]

\* cursor.execute(INSERT OR REPLACE ...) for one post, inside the connection
ExecuteInsert(committed, transaction, post) ==
    InsertOrReplace(ConnView(committed, transaction), RowOf(post))

(***************************************************************************)
(* DatabaseManager.get_analytics                                           *)
(***************************************************************************)
\* SQL comparison of two column values (Optional numbers): NULL sorts
\* before every number.
SqlLess(a, b) ==
    IF a = None THEN b # None
    ELSE IF b = None THEN FALSE
    ELSE a[1] < b[1]

RemoveAt(s, i) == SubSeq(s, 1, i - 1) \o SubSeq(s, i + 1, Len(s))

\* ORDER BY key [DESC] over rows scanned in rowid order. SQL leaves the
\* order of rows with equal keys open; the SQLite library the program runs
\* on returns them in scan order. ks[i] is the key of rows[i].
RECURSIVE OrderBy(_, _, _)
OrderBy(rows, ks, desc) ==
    IF rows = <<>> THEN <<>>
    ELSE LET Better(x, y) == IF desc THEN SqlLess(y, x) ELSE SqlLess(x, y)
             First(i) == \A j \in 1..Len(rows) : ~ Better(ks[j], ks[i])
             i == CHOOSE k \in 1..Len(rows) :
                      First(k) /\ \A j \in 1..(k - 1) : ~ First(j)
         IN  <<rows[i]>> \o OrderBy(RemoveAt(rows, i), RemoveAt(ks, i), desc)

\* cursor.fetchone(): the first row of the result, or None
FetchOne(result) == IF result = <<>> THEN None ELSE Some(result[1])

\* LIMIT n
Limit(result, n) == SubSeq(result, 1, Min(n, Len(result)))

RECURSIVE SumSeq(_)
SumSeq(s) == IF s = <<>> THEN 0 ELSE Head(s) + SumSeq(Tail(s))

\* AVG(column): NULL over no rows, else the exact quotient sum / count
Avg(values) ==
    IF values = <<>> THEN None
    ELSE Some([sum |-> SumSeq(values), count |-> Len(values)])

Column(table, c) == [i \in 1..Len(table) |-> table[i][c]]

TopLimit == 10

\* the top-posts query: ORDER BY score DESC LIMIT 10
TopPostsQuery(table) ==
    LET sorted == OrderBy(table, [i \in 1..Len(table) |-> Some(table[i].score)],
                          TRUE)
        top == Limit(sorted, TopLimit)
    IN  [i \in 1..Len(top) |->
            <<top[i].title, top[i].subreddit, top[i].score,
              top[i].sentiment_label>>]

\* SELECT sentiment_label, COUNT(*) ... GROUP BY sentiment_label, as the
\* dict the loop builds
SentimentDistribution(table) ==
    [l \in {table[i].sentiment_label : i \in 1..Len(table)} |->
        Cardinality({i \in 1..Len(table) : table[i].sentiment_label = l})]

\* SELECT COUNT(*), AVG(score), AVG(num_comments) FROM posts, as the dict
\* built from the row
OverallQuery(table) ==
    [total_posts  |-> Len(table),
     avg_score    |-> Avg(Column(table, "score")),
     avg_comments |-> Avg(Column(table, "num_comments"))]

\* SELECT title ... ORDER BY sentiment_score DESC LIMIT 1, then fetchone()
MostPositiveQuery(table) ==
    FetchOne(Limit(OrderBy(table, Column(table, "sentiment_score"), TRUE), 1))

\* SELECT title ... ORDER BY sentiment_score ASC LIMIT 1, then fetchone()
MostNegativeQuery(table) ==
    FetchOne(Limit(OrderBy(table, Column(table, "sentiment_score"), FALSE), 1))

\* the outcomes of a get_analytics call: none yet, an exception raised, or
\* the dict returned (status "ok")
NoAnalytics == [status |-> "none"]
Raised(exception) == [status |-> exception]

(***************************************************************************)
(* Inputs                                                                  *)
(***************************************************************************)
\* one child of data["data"]["children"], with every field present
Raw(id, title, score) ==
    [data |-> [id           |-> id,
               title        |-> title,
               author       |-> "u1",
               score        |-> score,
               num_comments |-> 3,
               upvote_ratio |-> 90]]

Post(id, title, score, now) == normalize_post(Raw(id, title, score), "python", now)[1]

\* The RedditPost objects the DatabaseManager is called with: two versions of
\* post "a" (different score, title and instant), a post "b" with the score
\* and polarity of the first, and a later version of "b" whose score the
\* sqlite3 binding refuses.
PostA1 == Post("a", "The sky is blue.", 20, 1)
PostA2 == Post("a", "I love this!", 50, 2)
PostB1 == Post("b", "Water is wet.", 20, 1)
PostB2 == Post("b", "I love that!", BigScore, 2)

CorePosts == {PostA1, PostA2, PostB1, PostB2}

\* Nine posts that an earlier run of the pipeline has stored in the database
\* file, so that the table can hold more rows than the top-posts query
\* returns.
EarlierRun ==
    << Post("d", "bulk d", 30, 1), Post("e", "bulk e", 20, 1),
       Post("f", "bulk f", 20, 1), Post("g", "bulk g", 5, 1),
       Post("h", "bulk h", 5, 1),  Post("i", "bulk i", 5, 1),
       Post("j", "This is awful.", 1, 1),  Post("k", "bulk k", 40, 1),
       Post("l", "bulk l", 20, 1) >>

MaxBatch == 2

SeqsUpTo(S, n) == UNION {[1..k -> S] : k \in 0..n}

Batches == SeqsUpTo(CorePosts, MaxBatch)

\* what the database file may hold when the DatabaseManager is constructed
\* (CREATE TABLE IF NOT EXISTS keeps the rows of an existing file)
ExistingFiles == {<<>>, EarlierRun}

MaxLockFailures == 1

(***************************************************************************)
(* History (kept for the properties, not read by the operations)           *)
(***************************************************************************)
\* the post_ids of the committed table that are new to seen, in rowid order
FirstSeenAfter(seen, table) ==
    seen \o SelectSeq([i \in 1..Len(table) |-> table[i].post_id],
                      LAMBDA id : \A k \in 1..Len(seen) : seen[k] # id)

WrittenAfter(w, post) ==
    [id \in DOMAIN w \cup {post.post_id} |->
        IF id = post.post_id THEN post ELSE w[id]]

(***************************************************************************)
(* DatabaseManager.insert_posts, one step per pass of its loop: every pass *)
(* commits on its own, so another connection can read the table between    *)
(* two passes.                                                             *)
(***************************************************************************)
\* conn = sqlite3.connect(self.db_path); inserted = 0
InsertPostsBegin(posts) ==
    /\ w_pc = "idle"
    /\ w_pc' = "loop"
    /\ txn' = None
    /\ inserted' = 0
    /\ outcomes' = <<>>
    /\ lastOp' = "insert_posts"
    /\ lastBatch' = posts
    /\ storeBefore' = store
    /\ repeated' = (lastOp = "insert_posts" /\ lastBatch = posts)
    /\ UNCHANGED <<store, faults, readVars, written, firstSeen>>

\* a pass whose cursor.execute raises: the binding refuses a parameter
\* (OverflowError), or another connection holds a write lock on the file
\* and the wait for it times out (sqlite3.OperationalError: database is
\* locked; not possible while this connection keeps the lock of a commit
\* that raised). The statement is not run, the error is printed, the
\* counter is not incremented.
RecordExecuteRaises ==
    /\ w_pc = "loop"
    /\ Len(outcomes) < Len(lastBatch)
    /\ \/ /\ BindError(lastBatch[Len(outcomes) + 1])
          /\ faults' = faults
       \/ /\ ~ BindError(lastBatch[Len(outcomes) + 1])
          /\ txn = None
          /\ faults < MaxLockFailures
          /\ faults' = faults + 1
    /\ outcomes' = Append(outcomes, "execute raised")
    /\ UNCHANGED <<store, txn, w_pc, inserted, readVars, lastOp,
                   lastBatch, storeBefore, repeated, written,
                   firstSeen, mainVars, normVars>>

\* a pass whose execute and commit both succeed: the commit makes every
\* write of the open transaction durable, and the counter is incremented
RecordCommitted ==
    /\ w_pc = "loop"
    /\ Len(outcomes) < Len(lastBatch)
    /\ LET post == lastBatch[Len(outcomes) + 1] IN
       /\ ~ BindError(post)
       /\ store' = ExecuteInsert(store, txn, post)
       /\ written' = WrittenAfter(written, post)
    /\ txn' = None
    /\ inserted' = inserted + 1
    /\ outcomes' = Append(outcomes, "written")
    /\ firstSeen' = FirstSeenAfter(firstSeen, store')
    /\ UNCHANGED <<w_pc, faults, readVars, lastOp, lastBatch, storeBefore, repeated,
                   mainVars, normVars>>

\* a pass whose execute succeeds and whose conn.commit() raises
\* (sqlite3.OperationalError: database is locked, another connection holding
\* a read lock): the error is printed and the counter is not incremented,
\* but nothing rolls the write back: it stays in the open transaction.
RecordCommitRaises ==
    /\ w_pc = "loop"
    /\ Len(outcomes) < Len(lastBatch)
    /\ faults < MaxLockFailures
    /\ LET post == lastBatch[Len(outcomes) + 1] IN
       /\ ~ BindError(post)
       /\ txn' = Some(ExecuteInsert(store, txn, post))
    /\ faults' = faults + 1
    /\ outcomes' = Append(outcomes, "commit raised")
    /\ UNCHANGED <<store, w_pc, inserted, readVars, lastOp, lastBatch,
                   storeBefore, repeated, written, firstSeen,
                   mainVars, normVars>>

\* conn.close(); return inserted. Closing discards an open transaction. In
\* main the call is followed by db.get_analytics().
InsertPostsReturn ==
    /\ w_pc = "loop"
    /\ Len(outcomes) = Len(lastBatch)
    /\ w_pc' = "idle"
    /\ txn' = None
    /\ pc' = IF pc = "inserting" THEN "analytics" ELSE pc
    /\ UNCHANGED <<store, inserted, outcomes, faults, readVars, lastOp,
                   lastBatch, storeBefore, repeated, written,
                   firstSeen, idx, raw_posts, all_posts, reported, clock,
                   normVars>>

(***************************************************************************)
(* DatabaseManager.get_analytics, one step per query: the connection is in *)
(* autocommit mode and holds no lock between two queries, so each query    *)
(* reads the table as committed at its own moment. A query cannot read     *)
(* while the connection of insert_posts keeps the lock of a commit that    *)
(* raised: it waits for that lock, and raises when the wait times out.     *)
(***************************************************************************)
\* conn = sqlite3.connect(self.db_path); cursor = conn.cursor()
GetAnalyticsBegin ==
    /\ r_pc = "idle"
    /\ r_pc' = "overall"
    /\ overall' = None
    /\ most_positive_title' = None
    /\ most_negative_title' = None
    /\ sentiment_dist' = None
    /\ analytics' = NoAnalytics
    /\ reads' = <<>>
    /\ UNCHANGED writeVars

\* the overall-stats query and the dict built from its row
OverallStatement ==
    /\ r_pc = "overall"
    /\ txn = None
    /\ reads' = Append(reads, store)
    /\ overall' = Some(OverallQuery(store))
    /\ r_pc' = "most_positive"
    /\ UNCHANGED <<most_positive_title, most_negative_title, sentiment_dist,
                   analytics, writeVars, mainVars, normVars>>

\* the most-positive query; most_positive_row[0] raises TypeError when
\* fetchone() returned None, and the exception leaves get_analytics (and
\* main, which does not catch it)
MostPositiveStatement ==
    /\ r_pc = "most_positive"
    /\ txn = None
    /\ reads' = Append(reads, store)
    /\ LET most_positive_row == MostPositiveQuery(store) IN
       IF most_positive_row = None
       THEN /\ analytics' = Raised("TypeError")
            /\ r_pc' = "idle"
            /\ overall' = None
            /\ most_positive_title' = None
            /\ pc' = IF pc = "analyzing" THEN "crashed" ELSE pc
       ELSE /\ most_positive_title' = Some(most_positive_row[1].title)
            /\ r_pc' = "most_negative"
            /\ UNCHANGED <<overall, analytics, pc>>
    /\ UNCHANGED <<most_negative_title, sentiment_dist, writeVars, idx,
                   raw_posts, all_posts, reported, clock, normVars>>

\* the most-negative query, with the same subscript of the fetched row
MostNegativeStatement ==
    /\ r_pc = "most_negative"
    /\ txn = None
    /\ reads' = Append(reads, store)
    /\ LET most_negative_row == MostNegativeQuery(store) IN
       IF most_negative_row = None
       THEN /\ analytics' = Raised("TypeError")
            /\ r_pc' = "idle"
            /\ overall' = None
            /\ most_positive_title' = None
            /\ most_negative_title' = None
            /\ pc' = IF pc = "analyzing" THEN "crashed" ELSE pc
       ELSE /\ most_negative_title' = Some(most_negative_row[1].title)
            /\ r_pc' = "distribution"
            /\ UNCHANGED <<overall, most_positive_title, analytics, pc>>
    /\ UNCHANGED <<sentiment_dist, writeVars, idx, raw_posts, all_posts,
                   reported, clock, normVars>>

\* the sentiment-distribution query and the loop filling sentiment_dist
DistributionStatement ==
    /\ r_pc = "distribution"
    /\ txn = None
    /\ reads' = Append(reads, store)
    /\ sentiment_dist' = Some(SentimentDistribution(store))
    /\ r_pc' = "top_posts"
    /\ UNCHANGED <<overall, most_positive_title, most_negative_title,
                   analytics, writeVars, mainVars, normVars>>

\* the top-posts query, conn.close() and the dict returned; in main the
\* report follows
TopPostsStatement ==
    /\ r_pc = "top_posts"
    /\ txn = None
    /\ reads' = Append(reads, store)
    /\ analytics' = [status                 |-> "ok",
                     overall                |-> overall[1],
                     sentiment_distribution |-> sentiment_dist[1],
                     top_posts              |-> TopPostsQuery(store),
                     most_positive_title    |-> most_positive_title[1],
                     most_negative_title    |-> most_negative_title[1]]
    /\ r_pc' = "idle"
    /\ overall' = None
    /\ most_positive_title' = None
    /\ most_negative_title' = None
    /\ sentiment_dist' = None
    /\ pc' = IF pc = "analyzing" THEN "report" ELSE pc
    /\ UNCHANGED <<writeVars, idx, raw_posts, all_posts, reported, clock,
                   normVars>>

\* a query run while the connection of insert_posts keeps the lock of a
\* commit that raised: cursor.execute raises sqlite3.OperationalError
\* (database is locked), which get_analytics does not catch
StatementLocked ==
    /\ r_pc # "idle"
    /\ txn # None
    /\ analytics' = Raised("OperationalError")
    /\ r_pc' = "idle"
    /\ overall' = None
    /\ most_positive_title' = None
    /\ most_negative_title' = None
    /\ sentiment_dist' = None
    /\ UNCHANGED <<reads, writeVars, mainVars, normVars>>

\* The state after construction: the posts table of a fresh database file
\* or of a file an earlier run has filled, no run of main started, no call
\* made yet.
Init ==
    /\ \E posts \in ExistingFiles :
          /\ store = [i \in 1..Len(posts) |-> RowOf(posts[i])]
          /\ written = [id \in {posts[i].post_id : i \in 1..Len(posts)} |->
                           CHOOSE p \in {posts[i] : i \in 1..Len(posts)} :
                               p.post_id = id]
          /\ firstSeen = [i \in 1..Len(posts) |-> posts[i].post_id]
    /\ txn = None
    /\ w_pc = "idle"
    /\ inserted = 0
    /\ outcomes = <<>>
    /\ faults = 0
    /\ r_pc = "idle"
    /\ overall = None
    /\ most_positive_title = None
    /\ most_negative_title = None
    /\ sentiment_dist = None
    /\ analytics = NoAnalytics
    /\ reads = <<>>
    /\ lastOp = "none"
    /\ lastBatch = <<>>
    /\ storeBefore = <<>>
    /\ repeated = FALSE
    /\ pc = "idle"
    /\ idx = 0
    /\ raw_posts = Some(<<>>)
    /\ all_posts = <<>>
    /\ reported = {}
    /\ clock = 0
    /\ n_raw = Raw("a", "The sky is blue.", 20)
    /\ n_subreddit = "python"
    /\ n_result = None
    /\ n_pc = "call"

(***************************************************************************)
(* SpecInsert: one process calling insert_posts again and again. Other     *)
(* connections appear only through the read locks that make a commit       *)
(* raise.                                                                  *)
(***************************************************************************)
InsertPostsCall ==
    /\ \E posts \in Batches : InsertPostsBegin(posts)
    /\ UNCHANGED <<mainVars, normVars>>

NextInsert ==
    \/ InsertPostsCall
    \/ RecordExecuteRaises
    \/ RecordCommitted
    \/ RecordCommitRaises
    \/ InsertPostsReturn

SpecInsert == Init /\ [][NextInsert]_vars

(***************************************************************************)
(* SpecDb: one process calling insert_posts again and again, and another   *)
(* process, with its own DatabaseManager on the same file, calling         *)
(* get_analytics at any moment                                             *)
(***************************************************************************)
\* the batches the writing process inserts while the other process reads
ConcurrentBatches ==
    {<<PostA1>>, <<PostB1>>, <<PostB2>>, <<PostA1, PostB1>>}

ConcurrentInsertPostsCall ==
    /\ \E posts \in ConcurrentBatches : InsertPostsBegin(posts)
    /\ UNCHANGED <<mainVars, normVars>>

GetAnalyticsCall ==
    /\ GetAnalyticsBegin
    /\ UNCHANGED <<mainVars, normVars>>

NextDb ==
    \/ ConcurrentInsertPostsCall
    \/ RecordExecuteRaises
    \/ RecordCommitted
    \/ RecordCommitRaises
    \/ InsertPostsReturn
    \/ GetAnalyticsCall
    \/ OverallStatement
    \/ MostPositiveStatement
    \/ MostNegativeStatement
    \/ DistributionStatement
    \/ TopPostsStatement
    \/ StatementLocked

SpecDb == Init /\ [][NextDb]_vars

(***************************************************************************)
(* Properties of the DatabaseManager (checked under SpecInsert and SpecDb)  *)
(***************************************************************************)
RowsWithId(table, id) == {i \in 1..Len(table) : table[i].post_id = id}

\* C1: the table holds exactly one row per post_id ever written
\* successfully (counted by insert_posts), and that row equals, column by
\* column, the record written last under that post_id.
C1_UpsertLastWriteWins ==
    /\ Len(store) = Cardinality(DOMAIN written)
    /\ \A i \in 1..Len(store) : store[i].post_id \in DOMAIN written
    /\ \A id \in DOMAIN written :
          /\ Cardinality(RowsWithId(store, id)) = 1
          /\ \A i \in RowsWithId(store, id) : store[i] = RowOf(written[id])

\* C2: an insert_posts call that repeats the batch of the call just before
\* it leaves the row count (total_posts) as it was.
C2_UpsertIdempotent ==
    (repeated /\ w_pc = "idle") => Len(store) = Len(storeBefore)

\* the snapshot the specification describes for an empty table
EmptySnapshot(a) ==
    /\ a.status = "ok"
    /\ a.overall = [total_posts |-> 0, avg_score |-> None, avg_comments |-> None]
    /\ a.most_positive_title = None
    /\ a.most_negative_title = None
    /\ DOMAIN a.sentiment_distribution = {}
    /\ a.top_posts = <<>>

\* C3: a get_analytics call all of whose queries read an empty table
\* returns the empty snapshot instead of raising.
C3_EmptyStoreAnalytics ==
    (/\ analytics # NoAnalytics
     /\ reads # <<>>
     /\ \A i \in 1..Len(reads) : reads[i] = <<>>) => EmptySnapshot(analytics)

\* C5: when insert_posts has returned, a record whose write failed has left
\* no row of its own, every other record of the batch is written (earlier
\* and later ones alike), the rows the batch did not touch stay, and the
\* count returned is the number of records written.
C5_PerRecordFailure ==
    (lastOp = "insert_posts" /\ w_pc = "idle") =>
        LET ok == {i \in 1..Len(lastBatch) : outcomes[i] = "written"}
            okIds == {lastBatch[i].post_id : i \in ok}
            untouched == SelectSeq(storeBefore, LAMBDA r : r.post_id \notin okIds)
        IN  /\ inserted = Cardinality(ok)
            /\ \A i \in ok :
                  \E k \in 1..Len(store) :
                      /\ store[k].post_id = lastBatch[i].post_id
                      /\ \E j \in ok : j >= i /\ store[k] = RowOf(lastBatch[j])
            /\ SubSeq(store, 1, Len(untouched)) = untouched
            /\ Len(store) = Len(untouched) + Cardinality(okIds)

\* the order of post_ids as strings
IdRank(id) ==
    CASE id = ""  -> 0
      [] id = "a" -> 1
      [] id = "b" -> 2
      [] id = "c" -> 3
      [] id = "d" -> 4
      [] id = "e" -> 5
      [] id = "f" -> 6
      [] id = "g" -> 7
      [] id = "h" -> 8
      [] id = "i" -> 9
      [] id = "j" -> 10
      [] id = "k" -> 11
      [] id = "l" -> 12

TopTuple(r) == <<r.title, r.subreddit, r.score, r.sentiment_label>>

\* the place of row i when the rows are ordered by score descending, rows of
\* equal score ordered by Tie
PlaceByScore(table, i, Tie(_, _)) ==
    1 + Cardinality({j \in 1..Len(table) :
                        \/ table[j].score > table[i].score
                        \/ table[j].score = table[i].score /\ Tie(j, i)})

TopIs(table, top, n, Tie(_, _)) ==
    /\ Len(top) = Min(n, Len(table))
    /\ \A i \in 1..Len(table) :
          PlaceByScore(table, i, Tie) <= n
              => top[PlaceByScore(table, i, Tie)] = TopTuple(table[i])

\* the table as the top-posts query (the fifth) of the call read it
TopPostsRead == reads[5]

\* C9: the top-posts list of a snapshot is the first rows by score
\* descending, ties by post_id ascending.
C9_TopByScoreTiesByPostId ==
    (analytics.status = "ok") =>
        TopIs(TopPostsRead, analytics.top_posts, TopLimit,
              LAMBDA j, i : IdRank(TopPostsRead[j].post_id)
                                < IdRank(TopPostsRead[i].post_id))

IsMaxSentiment(table, i) ==
    \A j \in 1..Len(table) :
        table[j].sentiment_score[1] <= table[i].sentiment_score[1]

IsMinSentiment(table, i) ==
    \A j \in 1..Len(table) :
        table[j].sentiment_score[1] >= table[i].sentiment_score[1]

\* the position in firstSeen of the post_id of row i
SeenAt(table, i) ==
    CHOOSE k \in 1..Len(firstSeen) : firstSeen[k] = table[i].post_id

\* title is the title of the row that wins among the rows of table holding
\* the extreme sentiment_score, Wins(i, j) saying that row i is not beaten
\* by row j
ExtremeIs(table, title, IsExtreme(_, _), Wins(_, _)) ==
    \E i \in 1..Len(table) :
        /\ IsExtreme(table, i)
        /\ \A j \in 1..Len(table) : IsExtreme(table, j) => Wins(i, j)
        /\ title = table[i].title

\* the table as the most-positive query (the second) and the most-negative
\* query (the third) of the call read it
MostPositiveRead == reads[2]
MostNegativeRead == reads[3]

\* C10: the extreme titles of a snapshot are those of rows of maximal /
\* minimal sentiment_score, and among tied rows the one whose post_id was
\* inserted first.
C10_ExtremeTiesFirstSeen ==
    (analytics.status = "ok") =>
        /\ ExtremeIs(MostPositiveRead, analytics.most_positive_title,
                     IsMaxSentiment,
                     LAMBDA i, j : SeenAt(MostPositiveRead, i)
                                       <= SeenAt(MostPositiveRead, j))
        /\ ExtremeIs(MostNegativeRead, analytics.most_negative_title,
                     IsMinSentiment,
                     LAMBDA i, j : SeenAt(MostNegativeRead, i)
                                       <= SeenAt(MostNegativeRead, j))

(***************************************************************************)
(* SpecNormalize: normalize_post applied to one raw item                   *)
(***************************************************************************)
\* Each field of a raw item is absent (<<>>) or present with a value
\* (<<v>>); values are of the JSON type the field has in the feed.
IdChoices == {<<>>, <<"">>, <<"a">>}
TitleChoices ==
    {<<>>, <<"">>, <<"I love this!">>, <<"This is terrible.">>,
     <<"The sky is blue.">>, <<"polarity +0.101">>, <<"polarity +0.100">>,
     <<"polarity -0.100">>, <<"polarity -0.101">>}
AuthorChoices == {<<>>, <<"u1">>}
ScoreChoices == {<<>>, <<-1>>, <<0>>, <<20>>}
NumCommentsChoices == {<<>>, <<-1>>, <<3>>}
UpvoteRatioChoices == {<<>>, <<-1>>, <<0>>, <<100>>, <<101>>}

MkPostData(i, t, a, s, n, u) ==
    LET present == {k \in {"id", "title", "author", "score", "num_comments",
                           "upvote_ratio"} :
                        \/ k = "id" /\ i # <<>>
                        \/ k = "title" /\ t # <<>>
                        \/ k = "author" /\ a # <<>>
                        \/ k = "score" /\ s # <<>>
                        \/ k = "num_comments" /\ n # <<>>
                        \/ k = "upvote_ratio" /\ u # <<>>}
    IN  [k \in present |->
            CASE k = "id"           -> i[1]
              [] k = "title"        -> t[1]
              [] k = "author"       -> a[1]
              [] k = "score"        -> s[1]
              [] k = "num_comments" -> n[1]
              [] k = "upvote_ratio" -> u[1]]

\* the raw items: every combination of the choices, and an item without "data"
RawItems ==
    {[data |-> MkPostData(i, t, a, s, n, u)] :
        i \in IdChoices, t \in TitleChoices, a \in AuthorChoices,
        s \in ScoreChoices, n \in NumCommentsChoices, u \in UpvoteRatioChoices}
    \cup {[kind |-> "t3"]}

SubredditChoices == {"", "python"}

InitNormalizeAny ==
    /\ n_raw \in RawItems
    /\ n_subreddit \in SubredditChoices
    /\ n_result = None
    /\ n_pc = "call"
    /\ store = <<>>
    /\ txn = None
    /\ w_pc = "idle"
    /\ inserted = 0
    /\ outcomes = <<>>
    /\ faults = 0
    /\ r_pc = "idle"
    /\ overall = None
    /\ most_positive_title = None
    /\ most_negative_title = None
    /\ sentiment_dist = None
    /\ analytics = NoAnalytics
    /\ reads = <<>>
    /\ lastOp = "none"
    /\ lastBatch = <<>>
    /\ storeBefore = <<>>
    /\ repeated = FALSE
    /\ written = <<>>
    /\ firstSeen = <<>>
    /\ pc = "idle"
    /\ idx = 0
    /\ raw_posts = Some(<<>>)
    /\ all_posts = <<>>
    /\ reported = {}
    /\ clock = 0

NormalizeCall ==
    /\ n_pc = "call"
    /\ n_result' = normalize_post(n_raw, n_subreddit, clock)
    /\ n_pc' = "return"
    /\ UNCHANGED <<n_raw, n_subreddit, dbVars, mainVars>>

NextNormalize == NormalizeCall

SpecNormalize == InitNormalizeAny /\ [][NextNormalize]_vars

(***************************************************************************)
(* Properties of normalize_post (checked under SpecNormalize)              *)
(***************************************************************************)
Given(d, k, default) == IF k \in DOMAIN d THEN d[k] ELSE default

\* the raw item has an id and a non-empty title, the fields it gives are in
\* range, and it lacks at least one of the fields that have a default
LacksOnlyDefaultable(raw, subreddit) ==
    /\ "data" \in DOMAIN raw
    /\ {"id", "title"} \subseteq DOMAIN raw["data"]
    /\ raw["data"]["id"] # ""
    /\ raw["data"]["title"] # ""
    /\ subreddit # ""
    /\ Given(raw["data"], "score", 0) >= 0
    /\ Given(raw["data"], "num_comments", 0) >= 0
    /\ Given(raw["data"], "upvote_ratio", 50) >= 0
    /\ Given(raw["data"], "upvote_ratio", 50) <= 100
    /\ ~ ({"author", "score", "num_comments", "upvote_ratio"}
             \subseteq DOMAIN raw["data"])

\* C6: such a raw item yields a record in which every absent field holds its
\* default (author "[deleted]", score 0, comment count 0, upvote ratio 0.5).
C6_DefaultsBeforeValidation ==
    (n_pc = "return" /\ LacksOnlyDefaultable(n_raw, n_subreddit)) =>
        /\ n_result # None
        /\ n_result[1].author = Given(n_raw["data"], "author", "[deleted]")
        /\ n_result[1].score = Given(n_raw["data"], "score", 0)
        /\ n_result[1].num_comments = Given(n_raw["data"], "num_comments", 0)
        /\ n_result[1].upvote_ratio = Given(n_raw["data"], "upvote_ratio", 50)

\* C7: normalize_post returns no record, or a record with non-empty post_id,
\* source and title, score >= 0, comment count >= 0 and upvote ratio in
\* [0, 1]; a raw item without id or title yields no record.
C7_RecordValidOrAbsent ==
    n_pc = "return" =>
        /\ n_result # None =>
              /\ n_result[1].post_id # ""
              /\ n_result[1].subreddit # ""
              /\ n_result[1].title # ""
              /\ n_result[1].score >= 0
              /\ n_result[1].num_comments >= 0
              /\ n_result[1].upvote_ratio >= 0
              /\ n_result[1].upvote_ratio <= 100
        /\ ("data" \notin DOMAIN n_raw
              \/ ~ ({"id", "title"} \subseteq DOMAIN n_raw["data"]))
              => n_result = None

\* C8: every record normalize_post produces has both sentiment fields set,
\* with label Positive exactly when the score is above 0.1, Negative exactly
\* when it is below -0.1, Neutral otherwise.
C8_SentimentThresholds ==
    (n_pc = "return" /\ n_result # None) =>
        LET r == n_result[1] IN
        /\ r.sentiment_score # None
        /\ r.sentiment_label # None
        /\ r.sentiment_score[1] = Polarity(r.title)
        /\ (r.sentiment_label[1] = "Positive") <=> (r.sentiment_score[1] > 100)
        /\ (r.sentiment_label[1] = "Negative") <=> (r.sentiment_score[1] < -100)
        /\ (r.sentiment_label[1] = "Neutral") <=>
              (r.sentiment_score[1] >= -100 /\ r.sentiment_score[1] <= 100)

\* a record whose polarity is exactly 0.1 and whose label is Neutral
C8_Witness ==
    /\ n_pc = "return"
    /\ n_result # None
    /\ n_result[1].sentiment_score = Some(100)
    /\ n_result[1].sentiment_label = Some("Neutral")

(***************************************************************************)
(* Spec: runs of main() against one database file                          *)
(***************************************************************************)
\* args.subreddits
Subreddits == <<"python", "news">>

\* what the feed may hold: two posts of equal score and polarity, a post
\* whose score the sqlite3 binding refuses, and a post without an author
RawCatalogue ==
    {Raw("a", "The sky is blue.", 20),
     Raw("b", "Water is wet.", 20),
     Raw("b", "I love that!", BigScore),
     [data |-> [id |-> "c", title |-> "I love this!", score |-> 5,
                num_comments |-> 0, upvote_ratio |-> 100]]}

MaxFeed == 2
MaxRuns == 2

\* fetch_subreddit: the children of the response, or, when requests.get,
\* response.json() or the subscripting raises, the error printed and None
\* returned (the except branch has no return statement).
fetch_subreddit(response) ==
    IF response.ok THEN Some(response.children) ELSE None

\* the inner loop of main: normalize each raw post, keep the records
RECURSIVE NormalizeAll(_, _, _)
NormalizeAll(raws, subreddit, now) ==
    IF raws = <<>> THEN <<>>
    ELSE LET post == normalize_post(Head(raws), subreddit, now)
         IN  post \o NormalizeAll(Tail(raws), subreddit, now)

Start ==
    /\ pc \in {"idle", "done", "crashed"}
    /\ clock < MaxRuns
    /\ pc' = "fetch"
    /\ idx' = 1
    /\ all_posts' = <<>>
    /\ reported' = {}
    /\ raw_posts' = Some(<<>>)
    /\ clock' = clock + 1
    /\ UNCHANGED <<dbVars, normVars>>

\* one iteration of the loop over args.subreddits, the fetch succeeding
FetchReturns ==
    /\ pc = "fetch"
    /\ idx <= Len(Subreddits)
    /\ \E children \in SeqsUpTo(RawCatalogue, MaxFeed) :
          /\ raw_posts' = fetch_subreddit([ok |-> TRUE, children |-> children])
          /\ all_posts' = all_posts \o
                 NormalizeAll(raw_posts'[1], Subreddits[idx], clock)
    /\ idx' = idx + 1
    /\ pc' = IF idx' > Len(Subreddits) THEN "store" ELSE "fetch"
    /\ UNCHANGED <<reported, clock, dbVars, normVars>>

\* one iteration, the fetch failing: fetch_subreddit prints the error and
\* returns None, and "for raw_post in raw_posts" raises TypeError, which
\* nothing in main catches
FetchFails ==
    /\ pc = "fetch"
    /\ idx <= Len(Subreddits)
    /\ raw_posts' = fetch_subreddit([ok |-> FALSE, children |-> <<>>])
    /\ reported' = reported \cup {Subreddits[idx]}
    /\ pc' = IF raw_posts' = None THEN "crashed" ELSE "fetch"
    /\ UNCHANGED <<idx, all_posts, clock, dbVars, normVars>>

\* db = DatabaseManager(args.db) (CREATE TABLE IF NOT EXISTS keeps an
\* existing table) and the call db.insert_posts(all_posts), whose passes
\* are the Record actions and whose return is InsertPostsReturn
StoreStep ==
    /\ pc = "store"
    /\ InsertPostsBegin(all_posts)
    /\ pc' = "inserting"
    /\ UNCHANGED <<idx, raw_posts, all_posts, reported, clock, normVars>>

\* the call db.get_analytics(), whose queries are the Statement actions;
\* the last one returns the dict assigned to analytics, and an exception
\* one raises ends main
AnalyticsStep ==
    /\ pc = "analytics"
    /\ GetAnalyticsBegin
    /\ pc' = "analyzing"
    /\ UNCHANGED <<idx, raw_posts, all_posts, reported, clock, normVars>>

\* ReportGenerator.generate_html_report(analytics)
ReportStep ==
    /\ pc = "report"
    /\ pc' = "done"
    /\ UNCHANGED <<idx, raw_posts, all_posts, reported, clock, dbVars, normVars>>

Next ==
    \/ Start
    \/ FetchReturns
    \/ FetchFails
    \/ StoreStep
    \/ RecordExecuteRaises
    \/ RecordCommitted
    \/ RecordCommitRaises
    \/ InsertPostsReturn
    \/ AnalyticsStep
    \/ OverallStatement
    \/ MostPositiveStatement
    \/ MostNegativeStatement
    \/ DistributionStatement
    \/ TopPostsStatement
    \/ ReportStep

Spec == Init /\ [][Next]_vars

\* C4: a run in which the fetch of a source failed is not aborted: the
\* failure is reported and the run goes on with the remaining sources and
\* the store and aggregate steps.
C4_SourceFailureIsolation ==
    reported # {} => pc # "crashed"

=============================================================================
